---- MODULE Spec2Model ----
(***************************************************************************)
(* A model of the r6n crate: the routing table (lib.rs), the PUT message   *)
(* codec (message.rs), the HELLO block layer (block.rs) and the bloom      *)
(* filter (bloom.rs).                                                      *)
(*                                                                         *)
(* Byte buffers are sequences of naturals in 0..255.  Indices returned by  *)
(* operations are 0-based, as in the source; a TLA+ sequence s is read at  *)
(* s[i + 1].                                                               *)
(***************************************************************************)
EXTENDS Integers, Sequences, FiniteSets, TLC

VARIABLES
    build,       \* "debug" (overflow checks on) or "release" (wrapping)
    panicked,    \* TRUE once a call has panicked: the thread unwinds
    routes,      \* RoutingTable.routes: sequence of Route records
    neighbours,  \* RoutingTable.neighbours: one u8 counter per distance
    ncalls,      \* number of RoutingTable::insert calls made so far
    ret,         \* the last call and what it returned
    put_buf,     \* the byte buffer handed to PutMessage::parse
    put_msg,     \* what PutMessage::parse returned for put_buf
    hello_buf,   \* the bytes of a HELLO block as received
    tampered,    \* 0, or the position of the byte of hello_buf changed in transit
    hello_blk,   \* what HelloBlock::parse returned for hello_buf
    hello_ok,    \* what validate_block_store_request returned for hello_blk
    rf,          \* the Result Filter of an outgoing query, once set up
    rf_setup,    \* the arguments of the setup_result_filter call that made rf
    rf_inserted, \* address spans of the results the caller accepted and inserted
    rf_res,      \* the last filter_result call on rf and what it returned
    bloom,       \* a BloomFilter, once constructed: its byte_mask and bytes
    bloom_keys,  \* the keys inserted into bloom so far
    bloom_ret,   \* the last call on bloom and what it returned
    dist_a,      \* the first identifier handed to log2_xor_dist
    dist_b,      \* the second identifier handed to log2_xor_dist
    dist_ret,    \* whether log2_xor_dist was called, and what it returned
    addrs_out,   \* the addresses Addrs::next has yielded for hello_blk, in order
    addrs_ret    \* what the last Addrs::next call returned

table_vars == <<routes, neighbours, ncalls, ret>>
put_vars == <<put_buf, put_msg>>
hello_vars == <<hello_buf, tampered, hello_blk, hello_ok>>
rf_vars == <<rf, rf_setup, rf_inserted, rf_res>>
bloom_vars == <<bloom, bloom_keys, bloom_ret>>
dist_vars == <<dist_a, dist_b, dist_ret>>
addrs_vars == <<addrs_out, addrs_ret>>

vars == <<build, panicked, table_vars, put_vars, hello_vars, rf_vars, bloom_vars, dist_vars, addrs_vars>>

\* the state outside the routing table
not_table == <<put_vars, hello_vars, rf_vars, bloom_vars, dist_vars, addrs_vars>>
\* the state outside the PUT codec
not_put == <<table_vars, hello_vars, rf_vars, bloom_vars, dist_vars, addrs_vars>>
\* the state outside the HELLO block
not_hello == <<table_vars, put_vars, rf_vars, bloom_vars, dist_vars, addrs_vars>>
\* the state outside the Result Filter
not_rf == <<table_vars, put_vars, hello_vars, bloom_vars, dist_vars, addrs_vars>>
\* the state outside the bloom filter
not_bloom == <<table_vars, put_vars, hello_vars, rf_vars, dist_vars, addrs_vars>>
\* the state outside a log2_xor_dist call
not_dist == <<table_vars, put_vars, hello_vars, rf_vars, bloom_vars, addrs_vars>>
\* the state outside the HELLO block and the iterator over its addresses
not_addrs == <<table_vars, put_vars, rf_vars, bloom_vars, dist_vars>>

-----------------------------------------------------------------------------
(* Program constants *)

\* PeerId([u8; 64])
IdLen == 64
\* Peer(CompressedEdwardsY): a 32-byte public key
KeyLen == 32
\* the largest distance log2_xor_dist returns
MaxDist == 512
\* neighbours: Vec<u8>, each counter holds 0..255
U8Mod == 256

(* Bounds of the exploration *)

\* clock readings (ticks since the epoch) an insert may observe: 0..MaxTime
MaxTime == 1
\* routes kept in the table in the general specification
MaxRoutes == 3
\* insert calls made in the general specification
MaxCalls == 4
\* number of inserts of the bucket-filling specification
FillMax == 257

-----------------------------------------------------------------------------
(* Bytes *)

Byte == 0..255

Zeros(n) == [i \in 1..n |-> 0]

\* a ^ b on naturals
\* a mutant of BitXor: a & !b
RECURSIVE BitAndNot(_, _)
BitAndNot(a, b) ==
    IF a = 0 THEN 0
    ELSE ((a % 2) * (1 - (b % 2))) + 2 * BitAndNot(a \div 2, b \div 2)

RECURSIVE BitXor(_, _)
BitXor(a, b) ==
    IF a = 0 THEN b
    ELSE IF b = 0 THEN a
    ELSE (((a % 2) + (b % 2)) % 2) + 2 * BitXor(a \div 2, b \div 2)

\* u8::leading_zeros
RECURSIVE leading_zeros(_)
leading_zeros(x) ==
    IF x = 0 THEN 8
    ELSE IF x >= 128 THEN 0
    ELSE 1 + leading_zeros(2 * x)

\* Ord for byte slices: lexicographic, a proper prefix is Less
RECURSIVE BytesCmpFrom(_, _, _)
BytesCmpFrom(a, b, i) ==
    IF i > Len(a) /\ i > Len(b) THEN "Equal"
    ELSE IF i > Len(a) THEN "Less"
    ELSE IF i > Len(b) THEN "Greater"
    ELSE IF a[i] < b[i] THEN "Less"
    ELSE IF a[i] > b[i] THEN "Greater"
    ELSE BytesCmpFrom(a, b, i + 1)

BytesCmp(a, b) == BytesCmpFrom(a, b, 1)

\* SHA-512 is kept abstract: a function from byte strings to 64-byte digests
\* that is injective on the strings of the model (all shorter than 64
\* bytes): the string, zero padding, and the length in the last byte.
Sha512(b) == b \o Zeros(IdLen - 1 - Len(b)) \o <<Len(b)>>

-----------------------------------------------------------------------------
(* lib.rs: distance *)

\* a mutant of dist_loop: the loop does not break at the first differing byte
RECURSIVE dist_loop_no_break(_, _, _)
dist_loop_no_break(peer1, peer2, i) ==
    IF i > IdLen THEN 0
    ELSE leading_zeros(BitXor(peer1[i], peer2[i]))
             + dist_loop_no_break(peer1, peer2, i + 1)

\* the loop of log2_xor_dist from byte i on: the accumulated leading zeros
RECURSIVE dist_loop(_, _, _)
dist_loop(peer1, peer2, i) ==
    IF i > IdLen THEN 0
    ELSE LET xor == BitXor(peer1[i], peer2[i])
             clz == leading_zeros(xor)
         IN  IF clz < 8 THEN clz ELSE clz + dist_loop(peer1, peer2, i + 1)

log2_xor_dist(peer1, peer2) == MaxDist - dist_loop(peer1, peer2, 1)

\* Peer::id
PeerId(peer) == Sha512(peer)

-----------------------------------------------------------------------------
(* lib.rs: routing table *)

\* the key of the local node and RoutingTable.host
HostKey == Zeros(KeyLen)
host == PeerId(HostKey)

\* peers of the general specification: the local key itself (distance 0), a
\* peer at distance 257, and two peers sharing distance 512
PeerA == Zeros(KeyLen - 1) \o <<1>>
PeerB == <<128>> \o Zeros(KeyLen - 1)
PeerC == <<128, 1>> \o Zeros(KeyLen - 2)
Peers == {HostKey, PeerA, PeerB, PeerC}

Times == 0..MaxTime

\* the n-th of the distinct peers of the bucket-filling specification, all
\* at distance 512 from the host
FillPeer(n) == <<128, (n % 256), (n \div 256)>> \o Zeros(KeyLen - 3)

\* id = peer.id() and log2_xor_dist(&self.host, &id) for each peer of the
\* specifications, evaluated once
host_dist ==
    [peer \in Peers \cup {FillPeer(n) : n \in 0..FillMax} |->
        LET id == PeerId(peer) IN log2_xor_dist(host, id)]

\* Ord for Peer: the key bytes
PeerCmp(a, b) == BytesCmp(a, b)

NatCmp(a, b) == IF a < b THEN "Less" ELSE IF a > b THEN "Greater" ELSE "Equal"

\* a mutant of RouteCmp: the peer is left out of the comparison
RouteCmpNoPeer(a, b) ==
    IF NatCmp(a.dist, b.dist) # "Equal" THEN NatCmp(a.dist, b.dist)
    ELSE NatCmp(a.created, b.created)

\* a mutant of RouteCmp: created is left out of the comparison
RouteCmpNoCreated(a, b) ==
    IF NatCmp(a.dist, b.dist) # "Equal" THEN NatCmp(a.dist, b.dist)
    ELSE PeerCmp(a.peer, b.peer)

\* #[derive(PartialOrd, Ord)] for Route: lexicographic on the fields in order
RouteCmp(a, b) ==
    IF NatCmp(a.dist, b.dist) # "Equal" THEN NatCmp(a.dist, b.dist)
    ELSE IF NatCmp(a.created, b.created) # "Equal" THEN NatCmp(a.created, b.created)
    ELSE PeerCmp(a.peer, b.peer)

\* slice::binary_search: [found, i], i the index of the match or the
\* insertion point
RECURSIVE binary_search_loop(_, _, _, _)
binary_search_loop(s, x, left, right) ==
    IF left >= right THEN [found |-> FALSE, i |-> left]
    ELSE LET mid == left + ((right - left) \div 2)
             c   == RouteCmp(s[mid + 1], x)
         IN  IF c = "Less" THEN binary_search_loop(s, x, mid + 1, right)
             ELSE IF c = "Greater" THEN binary_search_loop(s, x, left, mid)
             ELSE [found |-> TRUE, i |-> mid]

binary_search(s, x) == binary_search_loop(s, x, 0, Len(s))

\* a mutant of VecInsert: the new route is pushed at the end
VecPush(s, i, x) == Append(s, x)

\* Vec::insert(i, x)
VecInsert(s, i, x) == SubSeq(s, 1, i) \o <<x>> \o SubSeq(s, i + 1, Len(s))

NoPeer == <<>>

\* RoutingTable::insert(peer), the clock reading Instant::now() - epoch
\* being `now`
insert(peer, now) ==
    LET dist == host_dist[peer]
        new_route == [dist |-> dist, created |-> now, peer |-> peer]
        r    == binary_search(routes, new_route)
    IN  /\ ~panicked
        /\ ncalls' = ncalls + 1
        /\ UNCHANGED <<build, not_table>>
        /\ IF build = "debug" /\ neighbours[dist] + 1 >= U8Mod
           THEN \* attempt to add with overflow
                /\ panicked' = TRUE
                /\ ret' = [op |-> "insert", arg |-> new_route,
                           val |-> "panic", out |-> NoPeer]
                /\ UNCHANGED <<routes, neighbours>>
           ELSE /\ panicked' = FALSE
                /\ neighbours' = [neighbours EXCEPT ![dist] = (@ + 1) % U8Mod]
                /\ IF r.found
                   THEN /\ routes' = [routes EXCEPT ![r.i + 1] = new_route]
                        /\ ret' = [op |-> "insert", arg |-> new_route,
                                   val |-> "Err", out |-> routes[r.i + 1].peer]
                   ELSE /\ routes' = VecInsert(routes, r.i, new_route)
                        /\ ret' = [op |-> "insert", arg |-> new_route,
                                   val |-> "Ok", out |-> NoPeer]

\* what last_k(dist) returns: <<"Some", index>> or <<"None">>
last_k_value(dist) ==
    IF neighbours[dist] = 0 THEN <<"None">>
    ELSE LET successor == [dist |-> dist + 1, created |-> 0,
                           peer |-> Zeros(KeyLen)]
             r == binary_search(routes, successor)
         IN  IF r.i = 0 THEN <<"None">>
             ELSE IF routes[(r.i - 1) + 1].dist # dist THEN <<"None">>
             ELSE <<"Some", r.i - 1>>

\* RoutingTable::last_k(dist)
last_k(dist) ==
    /\ ~panicked
    /\ ret' = [op |-> "last_k", arg |-> dist,
               val |-> last_k_value(dist), out |-> NoPeer]
    /\ UNCHANGED <<build, panicked, routes, neighbours, ncalls, not_table>>

\* arguments of last_k tried by the specifications
LastKArgs == {0, 256, 257, MaxDist}

-----------------------------------------------------------------------------
(* Specification of the routing table: PeerConnected signals and queries *)

InitTable ==
    /\ build \in {"debug", "release"}
    /\ panicked = FALSE
    /\ routes = <<>>
    /\ neighbours = [d \in 0..MaxDist |-> 0]
    /\ ncalls = 0
    /\ ret = [op |-> "none", arg |-> 0, val |-> "none", out |-> NoPeer]

\* no PUT message is being parsed
IdlePut ==
    /\ put_buf = <<>>
    /\ put_msg = [tag |-> "NotCalled"]

\* no HELLO block is being handled
IdleHello ==
    /\ hello_buf = <<>>
    /\ tampered = 0
    /\ hello_blk = [tag |-> "NotCalled"]
    /\ hello_ok = "NotCalled"

\* no Result Filter has been set up
IdleFilter ==
    /\ rf = [tag |-> "NoFilter"]
    /\ rf_setup = [called |-> FALSE]
    /\ rf_inserted = {}
    /\ rf_res = [block |-> <<>>, val |-> "NotCalled"]

\* no BloomFilter has been constructed
IdleBloom ==
    /\ bloom = [tag |-> "NoBloom"]
    /\ bloom_keys = {}
    /\ bloom_ret = [op |-> "none", bits |-> 0, key |-> <<>>, val |-> "none"]

\* log2_xor_dist is not being called on its own
IdleDist ==
    /\ dist_a = Zeros(IdLen)
    /\ dist_b = Zeros(IdLen)
    /\ dist_ret = [called |-> FALSE, val |-> 0]

\* no address was asked of a HELLO block
IdleAddrs ==
    /\ addrs_out = <<>>
    /\ addrs_ret = "NotCalled"

Init ==
    /\ InitTable
    /\ IdlePut
    /\ IdleHello
    /\ IdleFilter
    /\ IdleBloom
    /\ IdleDist
    /\ IdleAddrs

Connect ==
    \E peer \in Peers, now \in Times :
        /\ Len(routes) < MaxRoutes
        /\ ncalls < MaxCalls
        /\ insert(peer, now)

Query == \E dist \in LastKArgs : last_k(dist)

Next == Connect \/ Query

Spec == Init /\ [][Next]_vars

\* UnderlaySignal::PeerDisconnected(peer) is delivered: impl RoutingTable has
\* insert and last_k only, no operation takes the signal, and the table
\* stays as it is
Disconnect ==
    \E peer \in Peers :
        /\ ~panicked
        /\ ret' = [op |-> "PeerDisconnected", arg |-> 0, val |-> "none",
                   out |-> peer]
        /\ UNCHANGED <<build, panicked, routes, neighbours, ncalls, not_table>>

NextSignals == Connect \/ Disconnect

SpecSignals == Init /\ [][NextSignals]_vars

(* Specification filling one bucket: distinct peers of distance 512 connect *)
(* one after the other, each at a later clock reading                       *)

Fill ==
    /\ ncalls < FillMax
    /\ insert(FillPeer(ncalls), ncalls)

QueryFill == last_k(MaxDist)

NextFill == Fill \/ QueryFill

SpecFill == Init /\ [][NextFill]_vars

-----------------------------------------------------------------------------
(* message.rs: the PUT message *)

\* size_of::<PutMessageHeader>(): 4 + 4 + 1 + 1 + 2 + 2 + 2 + 8 + 128 + 64
PutHeaderLen == 216
\* the message type PutMessage::parse insists on
PutType == 146
\* [u8; 32] truncated origin
OriginLen == 32
\* SignatureBytes
SigLen == 64
\* the largest big_endian::U16
U16Max == 65535

\* slack bytes and path lengths tried around each section boundary
MaxExtra == 2

\* big_endian::U16::get at byte offset off of b
be_u16(b, off) == b[off + 1] * 256 + b[off + 2]

\* big_endian::U16::new(v) as bytes
to_be_u16(v) == <<v \div 256, v % 256>>

\* the fields of PutMessageHeader that parse reads, by their offsets
message_size(b) == be_u16(b, 0)
message_type(b) == be_u16(b, 2)
flags_of(b) == b[9 + 1]
path_len(b) == be_u16(b, 14)

\* Flags::get_record_route
get_record_route(flags) == (flags \div 2) % 2 = 1

\* a mutant of get_truncated: the bit of find_approximate is read
get_truncated_bit2(flags) == (flags \div 4) % 2 = 1

\* Flags::get_truncated
get_truncated(flags) == (flags \div 8) % 2 = 1

None == [tag |-> "None"]
Slice(off, len) == [tag |-> "Some", off |-> off, len |-> len]

\* PutMessage::parse(b): "Panic", None, or the message, whose sections are
\* sub-slices [off, off + len) of b.  The cursor b of the source is the
\* range [lo, hi) of the buffer.
parse_put(b) ==
    IF Len(b) < PutHeaderLen THEN None
    ELSE IF message_type(b) # PutType THEN [tag |-> "Panic"]
    ELSE IF PutHeaderLen > message_size(b) \/ message_size(b) > Len(b) THEN None
    ELSE LET hi  == message_size(b)
             lo0 == PutHeaderLen
             tr  == get_truncated(flags_of(b))
             lo1 == IF tr THEN lo0 + OriginLen ELSE lo0
             lo2 == lo1 + path_len(b)
             rr  == get_record_route(flags_of(b))
             lo3 == IF rr THEN lo2 + SigLen ELSE lo2
         IN  IF tr /\ hi - lo0 < OriginLen THEN None
             ELSE IF path_len(b) > hi - lo1 THEN None
             ELSE IF rr /\ hi - lo2 < SigLen THEN None
             ELSE [tag |-> "Some",
                   header |-> Slice(0, PutHeaderLen),
                   truncated_origin |->
                       IF tr THEN Slice(lo0, OriginLen) ELSE None,
                   put_path |-> Slice(lo1, path_len(b)),
                   last_hop_signature |->
                       IF rr THEN Slice(lo2, SigLen) ELSE None,
                   block |-> Slice(lo3, hi - lo3)]

\* the bytes of a PutMessageHeader with the given fields (all others zero),
\* followed by a zero body, cut or padded to n bytes
put_bytes(size, type, flags, plen, n) ==
    LET hdr == to_be_u16(size) \o to_be_u16(type) \o Zeros(4) \o <<0, flags>>
               \o Zeros(4) \o to_be_u16(plen) \o Zeros(8 + 128 + 64)
    IN  [i \in 1..n |-> IF i <= Len(hdr) THEN hdr[i] ELSE 0]

\* body lengths around every combination of the optional sections
BodyLens ==
    {s + x : s \in {0, OriginLen, SigLen, OriginLen + SigLen}, x \in 0..MaxExtra}

PutLens ==
    {0, 4, PutHeaderLen - 1, PutHeaderLen + 2 * (OriginLen + SigLen)}
        \cup {PutHeaderLen + n : n \in BodyLens}
PutSizes == PutLens \cup {U16Max}
PutTypes == {PutType, 0}
PutFlags == {0, 2, 5, 8, 10, 255}
PutPathLens == (0..MaxExtra) \cup {OriginLen + 1, U16Max}

PutInputs ==
    {put_bytes(size, type, flags, plen, n) :
        size \in PutSizes, type \in PutTypes, flags \in PutFlags,
        plen \in PutPathLens, n \in PutLens}

\* a buffer arrives and PutMessage::parse is called on it
ParsePut ==
    /\ ~panicked
    /\ put_msg.tag = "NotCalled"
    /\ put_msg' = parse_put(put_buf)
    /\ panicked' = (parse_put(put_buf).tag = "Panic")
    /\ UNCHANGED <<build, put_buf, not_put>>

InitPut ==
    /\ InitTable
    /\ IdleHello
    /\ IdleFilter
    /\ IdleBloom
    /\ IdleDist
    /\ IdleAddrs
    /\ put_buf \in PutInputs
    /\ put_msg = [tag |-> "NotCalled"]

NextPut == ParsePut

SpecPut == InitPut /\ [][NextPut]_vars

-----------------------------------------------------------------------------
(* block.rs: the HELLO block *)

\* size_of::<HelloBlockHeader>(): PublicKey 32 + SignatureBytes 64 + Timestamp 8
HelloHeaderLen == 104
\* Timestamp(big_endian::U64)
ExpLen == 8
\* HelloBlockSignaturePayload.size
PayloadSize == 80
\* HelloBlockSignaturePayload.purpose
PayloadPurpose == 7

\* longest trailing address span of the HELLO blocks tried
MaxAddrLen == 2

\* big_endian::U32::new(v) as bytes
to_be_u32(v) ==
    <<v \div 16777216, (v \div 65536) % 256, (v \div 256) % 256, v % 256>>

\* a UTF-8 continuation byte
utf8_cont(x) == 128 <= x /\ x <= 191

\* std::str::from_utf8(b).is_ok(), from byte i on: the well-formed byte
\* sequences of UTF-8
RECURSIVE utf8_from(_, _)
utf8_from(b, i) ==
    IF i > Len(b) THEN TRUE
    ELSE LET x == b[i]
             n == Len(b) - i
         IN  IF x < 128 THEN utf8_from(b, i + 1)
             ELSE IF 194 <= x /\ x <= 223
             THEN n >= 1 /\ utf8_cont(b[i + 1]) /\ utf8_from(b, i + 2)
             ELSE IF x = 224
             THEN /\ n >= 2 /\ 160 <= b[i + 1] /\ b[i + 1] <= 191
                  /\ utf8_cont(b[i + 2]) /\ utf8_from(b, i + 3)
             ELSE IF (225 <= x /\ x <= 236) \/ x = 238 \/ x = 239
             THEN /\ n >= 2 /\ utf8_cont(b[i + 1]) /\ utf8_cont(b[i + 2])
                  /\ utf8_from(b, i + 3)
             ELSE IF x = 237
             THEN /\ n >= 2 /\ 128 <= b[i + 1] /\ b[i + 1] <= 159
                  /\ utf8_cont(b[i + 2]) /\ utf8_from(b, i + 3)
             ELSE IF x = 240
             THEN /\ n >= 3 /\ 144 <= b[i + 1] /\ b[i + 1] <= 191
                  /\ utf8_cont(b[i + 2]) /\ utf8_cont(b[i + 3])
                  /\ utf8_from(b, i + 4)
             ELSE IF 241 <= x /\ x <= 243
             THEN /\ n >= 3 /\ utf8_cont(b[i + 1]) /\ utf8_cont(b[i + 2])
                  /\ utf8_cont(b[i + 3]) /\ utf8_from(b, i + 4)
             ELSE IF x = 244
             THEN /\ n >= 3 /\ 128 <= b[i + 1] /\ b[i + 1] <= 143
                  /\ utf8_cont(b[i + 2]) /\ utf8_cont(b[i + 3])
                  /\ utf8_from(b, i + 4)
             ELSE FALSE

from_utf8(b) == utf8_from(b, 1)

(* Ed25519 is kept abstract, as an ideal signature scheme: every key that  *)
(* decodes has exactly one signature for each message, and verification    *)
(* accepts that signature and no other.  ed25519_sign stands for that      *)
(* signature as 64 bytes; it is injective on the keys and messages of the  *)
(* model (keys with at most one non-zero byte after the first, messages    *)
(* whose digest part is determined by its first 50 bytes and its last).    *)

\* VerifyingKey::from_bytes(pk).is_ok(): some byte strings are no curve point
on_curve(pk) == pk[1] # 255

key_tag(pk) ==
    LET nz  == {i \in 2..KeyLen : pk[i] # 0}
        idx == IF nz = {} THEN 0 ELSE CHOOSE i \in nz : \A j \in nz : i <= j
    IN  <<pk[1], idx, IF idx = 0 THEN 0 ELSE pk[idx]>>

ed25519_sign(pk, msg) ==
    key_tag(pk) \o <<msg[4], msg[8]>> \o SubSeq(msg, 9, 16)
        \o SubSeq(msg, 17, 66) \o <<msg[PayloadSize]>>

\* pk.verify(msg, &sig).is_ok() for a key pk that decoded
ed25519_verify(pk, msg, sig) == sig = ed25519_sign(pk, msg)

\* the strings Addrs::next yields, concatenated: the bytes before the last
\* NUL, without the NULs
decoded_strings(addrs) ==
    LET nuls == {i \in 1..Len(addrs) : addrs[i] = 0}
        last == IF nuls = {} THEN 0 ELSE CHOOSE i \in nuls : \A j \in nuls : j <= i
    IN  SelectSeq(SubSeq(addrs, 1, last), LAMBDA x : x # 0)

\* a mutant of signature_payload: the hash is taken over the decoded strings
signature_payload_strings(expiration, addrs) ==
    to_be_u32(PayloadSize) \o to_be_u32(PayloadPurpose) \o expiration
        \o Sha512(decoded_strings(addrs))

\* a mutant of signature_payload: the expiration is left zeroed
signature_payload_no_expiration(expiration, addrs) ==
    to_be_u32(PayloadSize) \o to_be_u32(PayloadPurpose) \o Zeros(ExpLen)
        \o Sha512(addrs)

\* HelloBlockSignaturePayload { size: 80, purpose: 7, expiration,
\* hash_addrs: Sha512::digest(addrs) }.as_bytes()
signature_payload(expiration, addrs) ==
    to_be_u32(PayloadSize) \o to_be_u32(PayloadPurpose) \o expiration
        \o Sha512(addrs)

\* the fields of HelloBlockHeader and the bytes after it
peer_public_key(b) == SubSeq(b, 1, KeyLen)
signature(b) == SubSeq(b, KeyLen + 1, KeyLen + SigLen)
expiration(b) == SubSeq(b, KeyLen + SigLen + 1, HelloHeaderLen)
trailing(b) == SubSeq(b, HelloHeaderLen + 1, Len(b))

\* HelloBlock::parse(b): None or the block, a view of the header and of the
\* trailing bytes as Addrs
parse_hello(b) ==
    IF Len(b) < HelloHeaderLen THEN None
    ELSE LET sig == signature_payload(expiration(b), trailing(b))
         IN  IF ~on_curve(peer_public_key(b)) THEN None
             ELSE IF ~ed25519_verify(peer_public_key(b), sig, signature(b))
             THEN None
             ELSE IF ~from_utf8(trailing(b)) THEN None
             ELSE [tag |-> "Some",
                   header |-> [peer_public_key |-> peer_public_key(b),
                               signature |-> signature(b),
                               expiration |-> expiration(b)],
                   addrs |-> trailing(b)]

\* HelloBlock::validate_block_store_request(&self)
validate_block_store_request(blk) ==
    IF ~on_curve(blk.header.peer_public_key) THEN FALSE
    ELSE LET sig == signature_payload(blk.header.expiration, blk.addrs)
         IN  ed25519_verify(blk.header.peer_public_key, sig,
                            blk.header.signature)

\* keys, expirations and address bytes of the HELLO blocks tried: the address
\* bytes hold a NUL, an ASCII letter, the two bytes of U+00E9 and a byte that
\* occurs in no UTF-8 text
HelloKeys == {<<1>> \o Zeros(KeyLen - 1), <<2>> \o Zeros(KeyLen - 1)}
HelloExps == {Zeros(ExpLen - 1) \o <<1>>, Zeros(ExpLen - 1) \o <<2>>}
AddrBytes == {0, 65, 195, 169, 255}
AddrSpans == UNION {[1..n -> AddrBytes] : n \in 0..MaxAddrLen}
TamperBytes == {0, 1, 65, 255}

\* a block whose header carries the key's signature of the payload for
\* (exp_s, addrs_s) next to an expiration exp and trailing bytes addrs
hello_bytes(pk, exp_s, addrs_s, exp, addrs) ==
    pk \o ed25519_sign(pk, to_be_u32(80) \o to_be_u32(7) \o exp_s \o Sha512(addrs_s))
       \o exp \o addrs

HelloInputs ==
    {hello_bytes(pk, exp_s, addrs_s, exp, addrs) :
        pk \in HelloKeys, exp_s \in HelloExps, exp \in HelloExps,
        addrs \in AddrSpans,
        addrs_s \in {<<>>, <<65>>}}
    \cup
    {hello_bytes(pk, exp, addrs, exp, addrs) :
        pk \in HelloKeys, exp \in HelloExps, addrs \in AddrSpans}
    \cup {Zeros(0), Zeros(HelloHeaderLen - 1)}

\* HelloBlock::parse is called on the received bytes
ParseHello ==
    /\ ~panicked
    /\ hello_blk.tag = "NotCalled"
    /\ hello_blk' = parse_hello(hello_buf)
    /\ UNCHANGED <<build, panicked, hello_buf, tampered, hello_ok, not_hello>>

\* validate_block_store_request is called on the parsed block
ValidateHello ==
    /\ ~panicked
    /\ hello_blk.tag = "Some"
    /\ hello_ok = "NotCalled"
    /\ hello_ok' = IF validate_block_store_request(hello_blk)
                   THEN "true" ELSE "false"
    /\ UNCHANGED <<build, panicked, hello_buf, tampered, hello_blk, not_hello>>

\* an accepted block is sent again with one byte changed, and is received
TamperHello ==
    \E i \in 1..Len(hello_buf), v \in TamperBytes :
        /\ ~panicked
        /\ hello_ok = "true"
        /\ tampered = 0
        /\ v # hello_buf[i]
        /\ hello_buf' = [hello_buf EXCEPT ![i] = v]
        /\ tampered' = i
        /\ hello_blk' = [tag |-> "NotCalled"]
        /\ hello_ok' = "NotCalled"
        /\ UNCHANGED <<build, panicked, not_hello>>

InitHello ==
    /\ InitTable
    /\ IdlePut
    /\ IdleFilter
    /\ IdleBloom
    /\ IdleDist
    /\ IdleAddrs
    /\ hello_buf \in HelloInputs
    /\ tampered = 0
    /\ hello_blk = [tag |-> "NotCalled"]
    /\ hello_ok = "NotCalled"

NextHello == ParseHello \/ ValidateHello \/ TamperHello

SpecHello == InitHello /\ [][NextHello]_vars

-----------------------------------------------------------------------------
(* block.rs: the iterator over the addresses of a HELLO block *)

\* the longest trailing byte span of the blocks whose addresses are iterated
MaxAddrsLen == 4

\* str::split_once('\0'): None, or the part before the first NUL and the
\* part after it
split_once(str) ==
    LET nuls == {i \in 1..Len(str) : str[i] = 0}
    IN  IF nuls = {} THEN None
        ELSE LET i == CHOOSE n \in nuls : \A m \in nuls : n <= m
             IN  [tag |-> "Some", a |-> SubSeq(str, 1, i - 1),
                  b |-> SubSeq(str, i + 1, Len(str))]

\* Addrs::next on the addrs of the parsed block
AddrsNext ==
    LET r == split_once(hello_blk.addrs) IN
    /\ ~panicked
    /\ hello_blk.tag = "Some"
    /\ IF r.tag = "None"
       THEN /\ addrs_ret' = "None"
            /\ UNCHANGED <<hello_blk, addrs_out>>
       ELSE /\ hello_blk' = [hello_blk EXCEPT !.addrs = r.b]
            /\ addrs_out' = Append(addrs_out, r.a)
            /\ addrs_ret' = "Some"
    /\ UNCHANGED <<build, panicked, hello_buf, tampered, hello_ok, not_addrs>>

\* correctly signed blocks whose trailing bytes are NULs and ASCII letters
AddrsTexts == UNION {[1..n -> {0, 65, 66}] : n \in 0..MaxAddrsLen}
AddrsInputs ==
    {hello_bytes(pk, exp, addrs, exp, addrs) :
        pk \in {<<1>> \o Zeros(KeyLen - 1)},
        exp \in {Zeros(ExpLen - 1) \o <<1>>},
        addrs \in AddrsTexts}

InitAddrs ==
    /\ InitTable
    /\ IdlePut
    /\ IdleFilter
    /\ IdleBloom
    /\ IdleDist
    /\ IdleAddrs
    /\ hello_buf \in AddrsInputs
    /\ tampered = 0
    /\ hello_blk = [tag |-> "NotCalled"]
    /\ hello_ok = "NotCalled"

NextAddrs == ParseHello \/ AddrsNext

SpecAddrs == InitAddrs /\ [][NextAddrs]_vars

-----------------------------------------------------------------------------
(* bloom.rs and block.rs: the bloom filter and the Result Filter *)

(* A Vec<u8> that may be large is the record [tag, len, nz]: its length and *)
(* its non-zero bytes by 0-based index; every other byte is 0.              *)

\* a u32 is kept as two 16-bit limbs [hi, lo], its value hi * 2^16 + lo
LimbMod == 65536
\* the mutator prefix of a Result Filter
MutatorLen == 4
\* the number of big_endian::U32 words of a key
KeyWords == 16

\* small filter sizes tried, next to the sizes around the u32 limits
MaxFilterSize == 3

\* vec![0u8; n]
zeroed(n) == [tag |-> "Vec", len |-> n, nz |-> <<>>]

byte_at(buf, i) == IF i \in DOMAIN buf.nz THEN buf.nz[i] ELSE 0

\* &buf[n..]
tail(buf, n) ==
    [tag |-> "Vec", len |-> buf.len - n,
     nz |-> [j \in {i - n : i \in {k \in DOMAIN buf.nz : k >= n}} |->
                buf.nz[j + n]]]

\* buf after its part [n..] was written through a &mut slice that now holds t
with_tail(buf, n, t) ==
    [tag |-> "Vec", len |-> buf.len,
     nz |-> [j \in {k \in DOMAIN buf.nz : k < n} \cup {i + n : i \in DOMAIN t.nz} |->
                IF j < n THEN buf.nz[j] ELSE t.nz[j - n]]]

\* a & b on naturals
RECURSIVE BitAnd(_, _)
BitAnd(a, b) ==
    IF a = 0 \/ b = 0 THEN 0
    ELSE ((a % 2) * (b % 2)) + 2 * BitAnd(a \div 2, b \div 2)

\* a mutant of is_power_of_two: only zero is refused
is_nonzero(n) == n # 0

\* usize::is_power_of_two
RECURSIVE is_power_of_two(_)
is_power_of_two(n) ==
    IF n = 0 THEN FALSE
    ELSE IF n = 1 THEN TRUE
    ELSE n % 2 = 0 /\ is_power_of_two(n \div 2)

u32(hi, lo) == [hi |-> hi, lo |-> lo]

\* u32::to_be_bytes
u32_to_be_bytes(x) ==
    <<x.hi \div 256, x.hi % 256, x.lo \div 256, x.lo % 256>>

\* the number of bits of n: 0 for 0, else 1 + floor(log2 n)
RECURSIVE bit_length(_)
bit_length(n) == IF n = 0 THEN 0 ELSE 1 + bit_length(n \div 2)

\* x - 1 for a u32 x > 0
u32_pred(x) ==
    IF x.lo > 0 THEN u32(x.hi, x.lo - 1) ELSE u32(x.hi - 1, LimbMod - 1)

\* the exponent k of u32::next_power_of_two(x) = 2^k: the number of bits of
\* x - 1, and 0 for x = 0; k = 32 is the overflow of next_power_of_two
next_power_of_two_exp(x) ==
    IF x.hi = 0 /\ x.lo = 0 THEN 0
    ELSE LET y == u32_pred(x)
         IN  IF y.hi > 0 THEN 16 + bit_length(y.hi) ELSE bit_length(y.lo)

\* 2^k as a u32, for k < 32
u32_pow2(k) == IF k >= 16 THEN u32(2 ^ (k - 16), 0) ELSE u32(0, 2 ^ k)

\* x * 16 in u32: the wrapped product and whether it overflowed
u32_mul16(x) ==
    LET lo == x.lo * 16
        hi == x.hi * 16 + (lo \div LimbMod)
    IN  [val |-> u32(hi % LimbMod, lo % LimbMod), overflow |-> hi >= LimbMod]

\* x / 4 for a u32 x whose quotient is what `as usize` is applied to
u32_div4(x) == x.hi * (LimbMod \div 4) + (x.lo \div 4)

\* a mutant of word_and7: k & 0x3
word_and3(key, j) == key[4 * j + 4] % 4

\* k >> 3 and k & 0x7 for the j-th big-endian u32 word k (j from 0) of a key
word_shr3(key, j) ==
    ((key[4 * j + 1] * 256 + key[4 * j + 2]) * 256 + key[4 * j + 3]) * 32
        + (key[4 * j + 4] \div 8)
word_and7(key, j) == BitAnd(key[4 * j + 4], 7)

\* xor(x, y) of lib.rs
xor(x, y) == [i \in 1..IdLen |-> BitXor(x[i], y[i])]

\* BloomFilter::from(bytes): None or the filter with its byte_mask
bloom_from(bytes) ==
    IF ~is_power_of_two(bytes.len) THEN None
    ELSE [tag |-> "Some", byte_mask |-> bytes.len - 1, bytes |-> bytes]

\* the byte index and the bit of the j-th word of the key
bf_byte(mask, key, j) == BitAnd(word_shr3(key, j), mask)
bf_bit(key, j) == word_and7(key, j)

\* assert!(mask < bytes.len()) and the bounds check of bytes[byte], for every
\* word of the key: FALSE is a panic of bf_test_inner or bf_insert_inner
bf_in_bounds(bytes, mask, key) ==
    /\ mask < bytes.len
    /\ \A j \in 0..(KeyWords - 1) : bf_byte(mask, key, j) < bytes.len

\* bf_test_inner(bytes, mask, key), where it does not panic
bf_test_inner(bytes, mask, key) ==
    \A j \in 0..(KeyWords - 1) :
        (byte_at(bytes, bf_byte(mask, key, j)) \div (2 ^ bf_bit(key, j))) % 2 # 0

\* a mutant of or_bits: the byte is assigned, the bits it held are dropped
assign_bits(v, bits) ==
    LET bit_val(b) == IF b \in bits THEN 2 ^ b ELSE 0
    IN  bit_val(0) + bit_val(1) + bit_val(2) + bit_val(3)
            + bit_val(4) + bit_val(5) + bit_val(6) + bit_val(7)

\* v | (1 << b) for every bit b of bits
or_bits(v, bits) ==
    LET bit_val(b) == IF (v \div (2 ^ b)) % 2 = 1 \/ b \in bits THEN 2 ^ b ELSE 0
    IN  bit_val(0) + bit_val(1) + bit_val(2) + bit_val(3)
            + bit_val(4) + bit_val(5) + bit_val(6) + bit_val(7)

\* bf_insert_inner(bytes, mask, key): bytes[byte] |= 1 << bit for each of
\* the words of the key
bf_insert_inner(bytes, mask, key) ==
    LET words == 0..(KeyWords - 1)
        touched == {bf_byte(mask, key, j) : j \in words}
        bits_at(i) == {bf_bit(key, j) : j \in {w \in words : bf_byte(mask, key, w) = i}}
    IN  [bytes EXCEPT !.nz = [i \in DOMAIN bytes.nz \cup touched |->
                                 or_bits(byte_at(bytes, i), bits_at(i))]]

\* the key filter_result tests: SHA-512(mutator) xor SHA-512(address bytes)
filter_key(mutator, addrs) == xor(Sha512(mutator), Sha512(addrs))

\* HelloBlock::setup_result_filter(filter_size, mutator) in the given build:
\* the buffer, or "Panic" on an arithmetic overflow of a debug build
setup_result_filter(filter_size, mutator, profile) ==
    LET k == next_power_of_two_exp(filter_size)
        e == IF k >= 32 THEN u32(0, 0) ELSE u32_pow2(k)
        b == u32_div4(u32_mul16(e).val)
        m == u32_to_be_bytes(mutator)
    IN  IF profile = "debug" /\ (k >= 32 \/ u32_mul16(e).overflow)
        THEN [tag |-> "Panic"]
        ELSE [tag |-> "Vec", len |-> b + MutatorLen,
              nz |-> [i \in {n \in 0..(MutatorLen - 1) : m[n + 1] # 0} |-> m[i + 1]]]

\* HelloBlock::filter_result(_key, rf, _x_query) for a block whose Addrs
\* hold the bytes addrs
filter_result(addrs, buf) ==
    IF buf.len < MutatorLen THEN "Irrelevant"
    ELSE LET mutator == [i \in 1..MutatorLen |-> byte_at(buf, i - 1)]
             filter  == bloom_from(tail(buf, MutatorLen))
         IN  IF filter.tag = "None" THEN "Irrelevant"
             ELSE IF ~bf_in_bounds(filter.bytes, filter.byte_mask,
                                   filter_key(mutator, addrs))
             THEN "Panic"
             ELSE IF bf_test_inner(filter.bytes, filter.byte_mask,
                                   filter_key(mutator, addrs))
             THEN "Duplicate"
             ELSE "More"

\* the caller's insert of an accepted result:
\* BloomFilter::from(&mut rf[4..]) and insert of the filter key
insert_result(addrs, buf) ==
    LET mutator == [i \in 1..MutatorLen |-> byte_at(buf, i - 1)]
        filter  == bloom_from(tail(buf, MutatorLen))
    IN  with_tail(buf, MutatorLen,
                  bf_insert_inner(filter.bytes, filter.byte_mask,
                                  filter_key(mutator, addrs)))

\* a mutant of rf_after_filter_result: a result let through is inserted
rf_after_test_and_insert(addrs, buf) ==
    IF filter_result(addrs, buf) = "More" THEN insert_result(addrs, buf) ELSE buf

\* the bytes of rf when filter_result(_key, rf, _x_query) returns: the
\* &mut rf[4..] it wraps is only handed to BloomFilter::test, which reads
rf_after_filter_result(addrs, buf) == buf

\* filter sizes, mutators and blocks (by their address bytes) tried
FilterSizes ==
    {u32(0, n) : n \in 0..MaxFilterSize}
        \cup {u32(2048, 0), u32(2048, 1), u32(4096, 0), u32(32768, 0),
              u32(32768, 1), u32(LimbMod - 1, LimbMod - 1)}
Mutators == {u32(0, 0), u32(0, 1), u32(258, 772)}
FilterBlocks == {<<>>, <<65, 0>>, <<66, 0>>, <<65, 0, 66, 0>>}

\* setup_result_filter is called for an outgoing query
SetupFilter ==
    \E filter_size \in FilterSizes, mutator \in Mutators :
        LET v == setup_result_filter(filter_size, mutator, build) IN
        /\ ~panicked
        /\ rf.tag = "NoFilter"
        /\ IF v.tag = "Panic"
           THEN panicked' = TRUE /\ rf' = rf
           ELSE panicked' = FALSE /\ rf' = v
        /\ rf_setup' = [called |-> TRUE, filter_size |-> filter_size,
                        mutator |-> mutator]
        /\ UNCHANGED <<build, rf_inserted, rf_res, not_rf>>

\* filter_result is called for a candidate block
FilterResult ==
    \E addrs \in FilterBlocks :
        /\ ~panicked
        /\ rf.tag = "Vec"
        /\ rf_res' = [block |-> addrs, val |-> filter_result(addrs, rf)]
        /\ panicked' = (filter_result(addrs, rf) = "Panic")
        /\ rf' = rf_after_filter_result(addrs, rf)
        /\ UNCHANGED <<build, rf_setup, rf_inserted, not_rf>>

\* the caller accepts the result filter_result has just let through and
\* inserts its key into the bloom part of the filter
InsertResult ==
    /\ ~panicked
    /\ rf.tag = "Vec"
    /\ rf_res.val = "More"
    /\ rf' = insert_result(rf_res.block, rf)
    /\ rf_inserted' = rf_inserted \cup {rf_res.block}
    /\ rf_res' = [block |-> <<>>, val |-> "NotCalled"]
    /\ UNCHANGED <<build, panicked, rf_setup, not_rf>>

InitFilter ==
    /\ InitTable
    /\ IdlePut
    /\ IdleHello
    /\ IdleFilter
    /\ IdleBloom
    /\ IdleDist
    /\ IdleAddrs

NextFilter == SetupFilter \/ FilterResult \/ InsertResult

SpecFilter == InitFilter /\ [][NextFilter]_vars

\* the longest Result Filter received
MaxRfLen == 12

\* a buffer of len bytes: the mutator, then fill in every byte of the rest
filled(len, mutator, fill) ==
    LET m == u32_to_be_bytes(mutator)
        byte(i) == IF i < MutatorLen THEN m[i + 1] ELSE fill
    IN  [tag |-> "Vec", len |-> len,
         nz |-> [i \in {n \in 0..(len - 1) : byte(n) # 0} |-> byte(i)]]

\* Result Filters as they arrive in a message: any length, any content
RfFills == {0, 1, 255}
RfInputs ==
    {filled(len, mutator, fill) :
        len \in 0..MaxRfLen, mutator \in Mutators, fill \in RfFills}

\* a Result Filter arrives from the network with a query
ReceiveFilter ==
    \E buf \in RfInputs :
        /\ ~panicked
        /\ rf.tag = "NoFilter"
        /\ rf' = buf
        /\ UNCHANGED <<build, panicked, rf_setup, rf_inserted, rf_res, not_rf>>

NextRf == ReceiveFilter \/ FilterResult \/ InsertResult

SpecRf == InitFilter /\ [][NextRf]_vars

-----------------------------------------------------------------------------
(* bloom.rs: BloomFilter over an owned or an embedded buffer *)

\* PeerBloomFilter { bits: [u8; 128] }
PeerBloomLen == 128

\* bit counts up to which every value is tried for BloomFilter::new
MaxBits == 17
\* buffer lengths up to which every value is tried for BloomFilter::from
MaxFromLen == 9

\* a mutant of bloom_new: any power of two is accepted
bloom_new_any_power(bits) ==
    IF ~is_power_of_two(bits) THEN None
    ELSE [tag |-> "Some", byte_mask |-> (bits \div 8) - 1,
          bytes |-> zeroed(bits \div 8)]

\* BloomFilter::new(bits)
bloom_new(bits) ==
    IF ~is_power_of_two(bits) \/ bits < 8 THEN None
    ELSE LET bytes == bits \div 8
         IN  [tag |-> "Some", byte_mask |-> bytes - 1, bytes |-> zeroed(bytes)]

\* a key whose sixteen words all are the big-endian bytes <<a, b, c, d>>
word_key(a, b, c, d) ==
    [i \in 1..IdLen |-> CASE i % 4 = 1 -> a [] i % 4 = 2 -> b
                            [] i % 4 = 3 -> c [] OTHER -> d]

\* the keys tried: PeerIds as in the tests, and keys with chosen words
BloomKeys ==
    {PeerId([i \in 1..KeyLen |-> 1]), PeerId([i \in 1..KeyLen |-> 2]),
     word_key(0, 0, 0, 1), word_key(0, 0, 0, 2), word_key(0, 0, 0, 11),
     word_key(255, 255, 255, 255)}

BloomBits == 0..MaxBits \cup {24, 32, 64, 128, 1024, 2 ^ 30}

\* BloomFilter::new(bits) is called
BloomNew ==
    \E bits \in BloomBits :
        /\ ~panicked
        /\ bloom.tag = "NoBloom"
        /\ bloom' = bloom_new(bits)
        /\ bloom_ret' = [op |-> "new", bits |-> bits, key |-> <<>>,
                         val |-> bloom_new(bits).tag]
        /\ UNCHANGED <<build, panicked, bloom_keys, not_bloom>>

\* BloomFilter::from(bytes) is called on a zeroed buffer of len bytes
BloomFrom ==
    \E len \in 0..MaxFromLen \cup {16, 24, 64} :
        /\ ~panicked
        /\ bloom.tag = "NoBloom"
        /\ bloom' = bloom_from(zeroed(len))
        /\ bloom_ret' = [op |-> "from", bits |-> 8 * len, key |-> <<>>,
                         val |-> bloom_from(zeroed(len)).tag]
        /\ UNCHANGED <<build, panicked, bloom_keys, not_bloom>>

\* PeerBloomFilter::default() and get_mut(): BloomFilter::from(..).unwrap()
PeerBloomGetMut ==
    LET b == bloom_from(zeroed(PeerBloomLen)) IN
    /\ ~panicked
    /\ bloom.tag = "NoBloom"
    /\ panicked' = (b.tag = "None")
    /\ bloom' = IF b.tag = "None" THEN bloom ELSE b
    /\ bloom_ret' = [op |-> "get_mut", bits |-> 8 * PeerBloomLen, key |-> <<>>,
                     val |-> IF b.tag = "None" THEN "Panic" ELSE "Some"]
    /\ UNCHANGED <<build, bloom_keys, not_bloom>>

\* BloomFilter::insert(key)
BloomInsert ==
    \E key \in BloomKeys :
        /\ ~panicked
        /\ bloom.tag = "Some"
        /\ IF bf_in_bounds(bloom.bytes, bloom.byte_mask, key)
           THEN /\ panicked' = FALSE
                /\ bloom' = [bloom EXCEPT !.bytes =
                                 bf_insert_inner(bloom.bytes, bloom.byte_mask, key)]
                /\ bloom_keys' = bloom_keys \cup {key}
                /\ bloom_ret' = [op |-> "insert", bits |-> 0, key |-> key,
                                 val |-> "()"]
           ELSE /\ panicked' = TRUE
                /\ bloom_ret' = [op |-> "insert", bits |-> 0, key |-> key,
                                 val |-> "Panic"]
                /\ UNCHANGED <<bloom, bloom_keys>>
        /\ UNCHANGED <<build, not_bloom>>

\* BloomFilter::test(key)
BloomTest ==
    \E key \in BloomKeys :
        /\ ~panicked
        /\ bloom.tag = "Some"
        /\ panicked' = ~bf_in_bounds(bloom.bytes, bloom.byte_mask, key)
        /\ bloom_ret' =
               [op |-> "test", bits |-> 0, key |-> key,
                val |-> IF ~bf_in_bounds(bloom.bytes, bloom.byte_mask, key)
                        THEN "Panic"
                        ELSE IF bf_test_inner(bloom.bytes, bloom.byte_mask, key)
                        THEN "true" ELSE "false"]
        /\ UNCHANGED <<build, bloom, bloom_keys, not_bloom>>

InitBloom ==
    /\ InitTable
    /\ IdlePut
    /\ IdleHello
    /\ IdleFilter
    /\ IdleBloom
    /\ IdleDist
    /\ IdleAddrs

NextBloom == BloomNew \/ BloomFrom \/ PeerBloomGetMut \/ BloomInsert \/ BloomTest

SpecBloom == InitBloom /\ [][NextBloom]_vars

-----------------------------------------------------------------------------
(* lib.rs: log2_xor_dist on its own *)

\* byte positions 0..MaxIdByte of an identifier are varied, next to some
\* positions further on
MaxIdByte == 1

\* the identifier base with byte i (from 0) replaced by v
id_with(base, i, v) == [base EXCEPT ![i + 1] = v]

IdPositions == 0..MaxIdByte \cup {5, IdLen - 2, IdLen - 1}
IdValues == {1, 16, 128, 255}

\* identifiers: zero, one byte set, and one byte set above a last byte of
\* all ones
DistIds ==
    LET one == {id_with(Zeros(IdLen), i, v) : i \in IdPositions, v \in IdValues}
    IN  {Zeros(IdLen)} \cup one \cup {id_with(x, IdLen - 1, 255) : x \in one}

\* log2_xor_dist(&dist_a, &dist_b) is called
Distance ==
    /\ ~dist_ret.called
    /\ dist_ret' = [called |-> TRUE, val |-> log2_xor_dist(dist_a, dist_b)]
    /\ UNCHANGED <<build, panicked, dist_a, dist_b, not_dist>>

InitDist ==
    /\ InitTable
    /\ IdlePut
    /\ IdleHello
    /\ IdleFilter
    /\ IdleBloom
    /\ dist_a \in DistIds
    /\ dist_b \in DistIds
    /\ dist_ret = [called |-> FALSE, val |-> 0]
    /\ IdleAddrs

NextDist == Distance

SpecDist == InitDist /\ [][NextDist]_vars

-----------------------------------------------------------------------------
(* Properties of the routing table *)

\* number of routes of distance d
RoutesAt(d) == Cardinality({i \in 1..Len(routes) : routes[i].dist = d})

\* a is before b in the order on (dist, created, peer bytes)
TripleLess(a, b) ==
    \/ a.dist < b.dist
    \/ a.dist = b.dist /\ a.created < b.created
    \/ a.dist = b.dist /\ a.created = b.created
         /\ BytesCmp(a.peer, b.peer) = "Less"

\* s without its k-th element
Without(s, k) == SubSeq(s, 1, k - 1) \o SubSeq(s, k + 1, Len(s))

\* C1: for every distance d the occupancy counter neighbours[d] equals the
\* number of routes whose dist is d, after any sequence of inserts, inserts
\* that replace an identical entry included.
C1_CounterEqualsRoutes == \A d \in 0..MaxDist : neighbours[d] = RoutesAt(d)

\* C2: the routes list is strictly ascending in the lexicographic order of
\* (dist, created, peer bytes), so no two entries carry the same triple.
C2_StrictlySorted ==
    \A i \in 1..(Len(routes) - 1) : TripleLess(routes[i], routes[i + 1])

\* C2 witness: an insert has put a route between two routes of the table
C2_Witness ==
    /\ ret.op = "insert" /\ ret.val = "Ok"
    /\ Len(routes) >= 3
    /\ routes[2] = ret.arg
    /\ routes[2].dist = routes[3].dist

\* C3: an insert call that returns either finds the triple of the new route
\* in the table, and then leaves the list as long as it was, with the entry
\* replaced by the equal new route, and returns the replaced peer as Err; or
\* adds exactly the new route at its sorted position, leaves every other
\* route as it was, and returns Ok.
C3_InsertContract ==
    [][(ncalls' = ncalls + 1 /\ ~panicked') =>
        LET x == ret'.arg IN
        IF \E i \in 1..Len(routes) : routes[i] = x
        THEN /\ routes' = routes
             /\ ret'.val = "Err"
             /\ ret'.out = x.peer
        ELSE /\ ret'.val = "Ok"
             /\ Len(routes') = Len(routes) + 1
             /\ \E k \in 1..Len(routes') :
                    /\ routes'[k] = x
                    /\ Without(routes', k) = routes
                    /\ (k > 1 => TripleLess(routes'[k - 1], x))
                    /\ (k < Len(routes') => TripleLess(x, routes'[k + 1]))
      ]_vars

\* C3 witness: an insert met its own triple in a table of several routes and
\* returned the replaced peer
C3_Witness ==
    /\ ret.op = "insert" /\ ret.val = "Err"
    /\ ret.out = ret.arg.peer
    /\ Len(routes) >= 2
    /\ \E i \in 1..Len(routes) : routes[i] = ret.arg

\* the table was filled from empty by Len(routes) inserts of distinct peers,
\* all of distance d
FilledBucket(d) ==
    /\ Len(routes) >= 1
    /\ ncalls = Len(routes)
    /\ \A i \in 1..Len(routes) : routes[i].dist = d
    /\ \A i, j \in 1..Len(routes) : i # j => routes[i].peer # routes[j].peer

\* C4: after n distinct peers of one distance d were inserted into an empty
\* table, for every n, the counter at d is n and last_k(d) returns the index
\* of the entry with the largest created value of that distance.
C4_BucketFill ==
    \A d \in 0..MaxDist :
        FilledBucket(d) =>
            /\ neighbours[d] = Len(routes)
            /\ (ret.op = "last_k" /\ ret.arg = d) =>
                   /\ ret.val[1] = "Some"
                   /\ \A i \in 1..Len(routes) :
                          routes[i].created <= routes[ret.val[2] + 1].created

\* C5: a counter never wraps silently: it is never left holding less than
\* the number of routes of its distance.
C5_NoSilentWrap == \A d \in 0..MaxDist : neighbours[d] >= RoutesAt(d)

\* C16: in every state reachable by inserts, last_k(d) returns none exactly
\* when no route has distance d, and an index it returns is that of the last
\* route of distance d in the list.
C16_LastOfBucket ==
    ret.op = "last_k" =>
        /\ ret.val[1] = "None" <=> RoutesAt(ret.arg) = 0
        /\ ret.val[1] = "Some" =>
               /\ routes[ret.val[2] + 1].dist = ret.arg
               /\ \A j \in (ret.val[2] + 2)..Len(routes) :
                      routes[j].dist # ret.arg

\* the indices of the routes of a list that lead to peer
RoutesOf(list, peer) == {i \in 1..Len(list) : list[i].peer = peer}

\* C17: an insert call that returns, for a peer that has a route in the table
\* and at a clock reading later than those of its routes, returns Ok: the
\* duplicate is not detected, the table then holds one more route for the
\* peer, and the counter of its distance was incremented a second time.
C17_ReinsertUndetected ==
    [][(/\ ncalls' = ncalls + 1
        /\ ~panicked'
        /\ RoutesOf(routes, ret'.arg.peer) # {}
        /\ \A i \in RoutesOf(routes, ret'.arg.peer) :
               routes[i].created < ret'.arg.created) =>
        /\ ret'.val = "Ok"
        /\ Cardinality(RoutesOf(routes', ret'.arg.peer))
               = Cardinality(RoutesOf(routes, ret'.arg.peer)) + 1
        /\ Cardinality(RoutesOf(routes', ret'.arg.peer)) >= 2
        /\ neighbours'[ret'.arg.dist] = neighbours[ret'.arg.dist] + 1
        /\ neighbours'[ret'.arg.dist] >= 2
      ]_vars

\* C17 witness: a peer was inserted at clock reading 0 and again at clock
\* reading 1; both routes are in the table
C17_Witness ==
    /\ ret.op = "insert" /\ ret.val = "Ok"
    /\ ret.arg.created = 1
    /\ Len(routes) = 2
    /\ routes[1].peer = ret.arg.peer /\ routes[1].created = 0
    /\ routes[2] = ret.arg
    /\ neighbours[ret.arg.dist] = 2

\* C22: a route follows absent, present, absent: the table is mutated by
\* peer-disconnect events as well as peer-connect events, so when a peer
\* with routes is disconnected its routes leave the list and the counter of
\* its distance goes down by their number.
C22_DisconnectRemoves ==
    [][(ret'.op = "PeerDisconnected" /\ RoutesOf(routes, ret'.out) # {}) =>
           /\ RoutesOf(routes', ret'.out) = {}
           /\ Len(routes') = Len(routes) - Cardinality(RoutesOf(routes, ret'.out))
           /\ \A d \in 0..MaxDist :
                  neighbours'[d] =
                      neighbours[d] - Cardinality({i \in RoutesOf(routes, ret'.out) :
                                                     routes[i].dist = d})
      ]_vars

-----------------------------------------------------------------------------
(* Properties of PutMessage::parse *)

\* C6: PutMessage::parse ends by returning a message or no value for every
\* buffer; malformed input never makes it abort or panic.
C6_ParseNeverPanics ==
    put_msg.tag \in {"NotCalled", "None", "Some"} /\ ~panicked

\* C7: the sections of a parsed message partition the bytes from the end of
\* the fixed header to offset message_size, in order: truncated_origin (32
\* bytes, iff bit 3 of the flags), put_path (path_len bytes),
\* last_hop_signature (64 bytes, iff bit 1 of the flags), block (the rest).
C7_SectionsPartition ==
    put_msg.tag = "Some" =>
        LET size  == put_buf[1] * 256 + put_buf[2]
            flags == put_buf[10]
            plen  == put_buf[15] * 256 + put_buf[16]
            bit3  == (flags \div 8) % 2 = 1
            bit1  == (flags \div 2) % 2 = 1
            to    == put_msg.truncated_origin
            path  == put_msg.put_path
            sig   == put_msg.last_hop_signature
            blk   == put_msg.block
            after_to == IF bit3 THEN 216 + 32 ELSE 216
            after_sig == IF bit1 THEN after_to + plen + 64 ELSE after_to + plen
        IN  /\ size <= Len(put_buf)
            /\ (to.tag = "Some") = bit3
            /\ to.tag = "Some" => to.off = 216 /\ to.len = 32
            /\ path.off = after_to /\ path.len = plen
            /\ (sig.tag = "Some") = bit1
            /\ sig.tag = "Some" => sig.off = after_to + plen /\ sig.len = 64
            /\ blk.off = after_sig
            /\ blk.len >= 0
            /\ blk.off + blk.len = size

\* C7 witness: a parsed message with both optional sections, a path, a block
\* and bytes of the buffer left beyond message_size
C7_Witness ==
    /\ put_msg.tag = "Some"
    /\ put_msg.truncated_origin.tag = "Some"
    /\ put_msg.last_hop_signature.tag = "Some"
    /\ put_msg.put_path.len > 0
    /\ put_msg.block.len > 0
    /\ put_msg.block.off + put_msg.block.len < Len(put_buf)

-----------------------------------------------------------------------------
(* Properties of the HELLO block *)

\* the header of b carries the signature, by the header's key, of the
\* canonical 80-byte payload for the header's expiration and the SHA-512 of
\* the exact trailing bytes
CanonicallySigned(b) ==
    /\ Len(b) >= 104
    /\ on_curve(SubSeq(b, 1, 32))
    /\ SubSeq(b, 33, 96) =
           ed25519_sign(SubSeq(b, 1, 32),
                        <<0, 0, 0, 80, 0, 0, 0, 7>> \o SubSeq(b, 97, 104)
                            \o Sha512(SubSeq(b, 105, Len(b))))

\* parse, once called, has returned a block, and validation, once called,
\* has returned true
HelloAccepted ==
    /\ hello_blk.tag # "NotCalled" => hello_blk.tag = "Some"
    /\ hello_ok # "NotCalled" => hello_ok = "true"

\* C8 as claimed: every canonically signed HELLO block, whatever its
\* trailing address bytes are, parses and validates.
C8_SignedAccepted_AnyBytes == CanonicallySigned(hello_buf) => HelloAccepted

\* C8 as amended: every canonically signed HELLO block whose trailing address
\* bytes are valid UTF-8 parses and validates.
C8_SignedAccepted_Utf8 ==
    (CanonicallySigned(hello_buf) /\ from_utf8(SubSeq(hello_buf, 105, Len(hello_buf))))
        => HelloAccepted

\* C8 witness: a canonically signed block with a NUL-terminated address span
\* was parsed and validated
C8_Witness ==
    /\ CanonicallySigned(hello_buf)
    /\ Len(hello_buf) = 104 + 2
    /\ hello_buf[106] = 0
    /\ hello_buf[105] # 0
    /\ hello_blk.tag = "Some"
    /\ hello_ok = "true"

-----------------------------------------------------------------------------
(* Properties of the Result Filter *)

\* C10: on a filter made by setup_result_filter, filter_result returns More
\* for a block while nothing was inserted, and returns Duplicate for a block
\* whose filter key the caller has inserted, whatever was inserted after it.
C10_RoundTrip ==
    (rf.tag = "Vec" /\ rf_res.val # "NotCalled") =>
        /\ rf_inserted = {} => rf_res.val = "More"
        /\ rf_res.block \in rf_inserted => rf_res.val = "Duplicate"

-----------------------------------------------------------------------------
(* Properties of filter_result on received Result Filters *)

\* n is 2^k for some k
PowerOfTwo(n) == \E k \in 0..30 : n = 2 ^ k

Malformed(buf) == buf.len < MutatorLen \/ ~PowerOfTwo(buf.len - MutatorLen)

\* C11: filter_result never panics; it returns Irrelevant on a Result Filter
\* shorter than 4 bytes, of exactly 4 bytes, or whose bloom part has a length
\* that is not a power of two, and More or Duplicate on every other one.
C11_MalformedIrrelevant ==
    (rf.tag = "Vec" /\ rf_res.val # "NotCalled") =>
        /\ ~panicked
        /\ Malformed(rf) => rf_res.val = "Irrelevant"
        /\ ~Malformed(rf) => rf_res.val \in {"More", "Duplicate"}

C11_Witness ==
    /\ rf.tag = "Vec"
    /\ rf.len = MutatorLen + 3
    /\ rf_res.val = "Irrelevant"

\* x <= 2^k for a u32 x and k in 0..32
LeqPowerOfTwo(x, k) ==
    IF k >= 32 THEN TRUE
    ELSE IF k >= 16
    THEN x.hi < 2 ^ (k - 16) \/ (x.hi = 2 ^ (k - 16) /\ x.lo = 0)
    ELSE x.hi = 0 /\ x.lo <= 2 ^ k

\* the k for which 2^k is x rounded up to the next power of two
RoundedUpExp(x) ==
    CHOOSE k \in 0..32 :
        LeqPowerOfTwo(x, k) /\ \A j \in 0..(k - 1) : ~LeqPowerOfTwo(x, j)

\* C19: for every 32-bit filter_size, setup_result_filter returns the
\* mutator in big-endian followed by 4 * p zero bytes, p being filter_size
\* rounded up to the next power of two; nothing overflows, and filter_result
\* accepts the buffer (never Irrelevant).  Lengths are compared up to 2^30:
\* a longer filter part is only required to be longer than that.
C19_FilterSized ==
    rf_setup.called =>
        LET k == RoundedUpExp(rf_setup.filter_size) IN
        /\ ~panicked
        /\ rf.tag = "Vec"
        /\ k <= 28 => rf.len = MutatorLen + 4 * (2 ^ k)
        /\ k > 28 => rf.len > 2 ^ 30
        /\ \A i \in 0..(MutatorLen - 1) :
               byte_at(rf, i) = u32_to_be_bytes(rf_setup.mutator)[i + 1]
        /\ rf_inserted = {} => \A i \in DOMAIN rf.nz : i < MutatorLen
        /\ \A addrs \in FilterBlocks : filter_result(addrs, rf) # "Irrelevant"

\* C18: a filter_result call leaves every byte of rf as it was, whichever
\* result it returns, so a second call with the same block and rf returns
\* the same result; inserting is left to the caller.
C18_FilterResultReadsOnly ==
    [][rf_res'.val # "NotCalled" =>
           /\ rf' = rf
           /\ filter_result(rf_res'.block, rf') = rf_res'.val
      ]_vars

\* C18 witness: after an insert by the caller, filter_result let another
\* block through
C18_Witness ==
    /\ rf.tag = "Vec"
    /\ rf_inserted # {}
    /\ rf_res.val = "More"
    /\ rf_res.block \notin rf_inserted

-----------------------------------------------------------------------------
(* Properties of the bloom filter *)

\* C12: a bloom filter has no false negatives: on a freshly zeroed filter
\* test is false for every key, and a key that was inserted tests true in
\* every later state, whatever else was inserted since.
C12_NoFalseNegatives ==
    bloom.tag = "Some" =>
        /\ \A k \in bloom_keys :
               bf_test_inner(bloom.bytes, bloom.byte_mask, k)
        /\ bloom_keys = {} =>
               \A k \in BloomKeys :
                   ~bf_test_inner(bloom.bytes, bloom.byte_mask, k)
        /\ bloom_ret.op = "test" =>
               /\ bloom_ret.key \in bloom_keys => bloom_ret.val = "true"
               /\ bloom_keys = {} => bloom_ret.val = "false"

C12_Witness ==
    /\ bloom.tag = "Some"
    /\ bloom.bytes.len = PeerBloomLen
    /\ Cardinality(bloom_keys) >= 3
    /\ bloom_ret.op = "test"
    /\ bloom_ret.key = PeerId([i \in 1..KeyLen |-> 1])
    /\ bloom_ret.val = "true"

\* C13: every BloomFilter that exists has byte_mask = length - 1 < length:
\* new succeeds only for a power of two of at least 8 bits, from only for a
\* buffer whose length is a power of two (so not for an empty one); hence
\* neither the assertion nor a byte index of test and insert fails.
C13_MaskBelowLength ==
    /\ bloom_ret.val # "Panic"
    /\ bloom.tag = "Some" =>
           /\ bloom.byte_mask = bloom.bytes.len - 1
           /\ bloom.byte_mask < bloom.bytes.len
           /\ bloom.byte_mask >= 0
           /\ \A k \in BloomKeys :
                  bf_in_bounds(bloom.bytes, bloom.byte_mask, k)
    /\ (bloom_ret.op = "new" /\ bloom_ret.val = "Some") =>
           PowerOfTwo(bloom_ret.bits) /\ bloom_ret.bits >= 8
    /\ (bloom_ret.op = "from" /\ bloom_ret.val = "Some") =>
           PowerOfTwo(bloom_ret.bits \div 8)

C13_Witness ==
    /\ bloom.tag = "Some"
    /\ bloom.bytes.len = 1
    /\ bloom_ret.op = "test"
    /\ bloom_ret.key = word_key(255, 255, 255, 255)
    /\ bloom_ret.val = "true"

\* the bits set in a buffer, as <<byte index, bit>> pairs
SetBits(bytes) ==
    {<<i, b>> \in (DOMAIN bytes.nz) \X (0..7) : (bytes.nz[i] \div (2 ^ b)) % 2 = 1}

\* the sixteen bits derived from a key for a buffer of len bytes, len a
\* power of two: for each big-endian word k, bit k mod 8 of byte
\* (k div 8) mod len
DerivedBits(key, len) ==
    {<<(((key[4 * j + 1] * 256 + key[4 * j + 2]) * 256 + key[4 * j + 3]) * 32
            + (key[4 * j + 4] \div 8)) % len,
       key[4 * j + 4] % 8>> : j \in 0..(KeyWords - 1)}

\* C21: insert(key) sets exactly the sixteen bits derived from the key and
\* leaves every other bit of the buffer as it was, clearing none; test(key)
\* returns true iff all sixteen derived bits are set, and leaves the buffer
\* as it was.
C21_ExactlyDerivedBits ==
    [][/\ (bloom_ret'.op = "insert" /\ bloom.tag = "Some") =>
              /\ bloom_ret'.val # "Panic"
              /\ bloom'.byte_mask = bloom.byte_mask
              /\ bloom'.bytes.len = bloom.bytes.len
              /\ \A i \in DOMAIN bloom'.bytes.nz :
                     i \in 0..(bloom.bytes.len - 1) /\ bloom'.bytes.nz[i] \in 1..255
              /\ SetBits(bloom'.bytes) =
                     SetBits(bloom.bytes)
                         \cup DerivedBits(bloom_ret'.key, bloom.bytes.len)
       /\ (bloom_ret'.op = "test" /\ bloom.tag = "Some") =>
              /\ bloom' = bloom
              /\ bloom_ret'.val = "true" <=>
                     DerivedBits(bloom_ret'.key, bloom.bytes.len)
                         \subseteq SetBits(bloom.bytes)
      ]_vars

\* C21 witness: a second key was inserted into a filter of two bytes
C21_Witness ==
    /\ bloom.tag = "Some"
    /\ bloom.bytes.len = 2
    /\ bloom_ret.op = "insert"
    /\ Cardinality(bloom_keys) = 2
    /\ SetBits(bloom.bytes) # DerivedBits(bloom_ret.key, 2)

-----------------------------------------------------------------------------
(* Properties of log2_xor_dist *)

\* bit p of an identifier: bit 0 is the least significant bit of the last
\* byte, bit 511 the most significant bit of the first byte
IdBit(id, p) == (id[IdLen - (p \div 8)] \div (2 ^ (p % 8))) % 2

DifferingBits(a, b) == {p \in 0..(8 * IdLen - 1) : IdBit(a, p) # IdBit(b, p)}

SetMax(S) == CHOOSE x \in S : \A y \in S : y <= x

\* C14: log2_xor_dist(a, b) is 0 for a = b and otherwise one more than the
\* position of the most significant bit in which a and b differ, whatever
\* lower bits differ; it lies in 0..512.
C14_MostSignificantDifference ==
    dist_ret.called =>
        /\ dist_ret.val \in 0..MaxDist
        /\ dist_a = dist_b => dist_ret.val = 0
        /\ dist_a # dist_b =>
               dist_ret.val = SetMax(DifferingBits(dist_a, dist_b)) + 1

C14_Witness ==
    /\ dist_ret.called
    /\ dist_a = Zeros(IdLen)
    /\ dist_b = id_with(id_with(Zeros(IdLen), 5, 16), IdLen - 1, 255)
    /\ dist_ret.val = 469

\* C15: log2_xor_dist(a, a) = 0 and log2_xor_dist(a, b) = log2_xor_dist(b, a).
C15_Symmetric ==
    dist_ret.called =>
        /\ dist_ret.val = log2_xor_dist(dist_b, dist_a)
        /\ dist_a = dist_b => dist_ret.val = 0

C15_Witness ==
    /\ dist_ret.called
    /\ dist_a = id_with(Zeros(IdLen), 0, 128)
    /\ dist_b = id_with(Zeros(IdLen), 0, 255)
    /\ dist_ret.val = 8 * IdLen - 1

-----------------------------------------------------------------------------
(* Properties of the address iterator *)

\* the strings between the NULs of a byte string, a last one that no NUL
\* follows included when it is not empty
RECURSIVE SplitAtNul(_)
SplitAtNul(str) ==
    IF split_once(str).tag = "None"
    THEN IF str = <<>> THEN <<>> ELSE <<str>>
    ELSE <<split_once(str).a>> \o SplitAtNul(split_once(str).b)

\* C20: iterating the addresses of a parsed HELLO block ends, and has then
\* yielded, in order, every string that splitting the whole trailing byte
\* span at its NULs gives, a last one that no NUL follows included: no
\* byte other than a NUL is left out.
C20_AllAddressesYielded ==
    (hello_blk.tag = "Some" /\ addrs_ret = "None") =>
        addrs_out = SplitAtNul(trailing(hello_buf))

====
